---- MODULE Spec2Model ----
(***************************************************************************)
(* The byte-transfer buffer registry of app/src/main/cpp/bytetransfer.cpp  *)
(* and the bridge functions of v8integration.cpp / quickjs_integration.cpp *)
(* that call into it.  One action per exported function; every action is   *)
(* one whole synchronous call.                                             *)
(***************************************************************************)
EXTENDS Integers, Sequences, FiniteSets, TLC

\* ---------------------------------------------------------------- bounds
\* size_t is SizeBits wide (32 or 64 in the builds; scaled down here).
SizeBits == 4
\* bytes the allocator can hand out in total before new[] throws
HeapBytes == 2
\* longest payload / largest length argument a caller passes
MaxLen == 2

SizeMod == 2 ^ SizeBits

\* byte values a caller may put in a payload (0 is what memset writes)
Bytes == {0, 1}
\* buffer names callers use; "" is an ordinary key
NameArgs == {"", "v8_output"}
\* the absent jstring / const char* (nullptr); never equal to a name
NoName == "<nullptr>"
TargetArgs == NameArgs \cup {NoName}
\* jint arguments: capacities, lengths and offsets, negatives included
CapArgs == -1 .. (HeapBytes + 1)
LenArgs == -1 .. MaxLen
OffArgs == -1 .. MaxLen
\* jbyteArray payloads
Payloads == UNION {[1 .. n -> Bytes] : n \in 0 .. MaxLen}

\* the threads of the host that call into the registry at the same time
Threads == {1, 2}

\* threads: where each thread is inside its call (used when calls overlap);
\* start: the registry the overlapping calls started from
\* heap: the storage new[] has handed out and delete[] has not taken back;
\* object, external: one ByteBuffer outside the registry and the caller's
\* memory it may wrap (used when the struct is exercised on its own)
\* g_v8Engine, g_quickjsEngine: the script engines of v8integration.cpp and
\* quickjs_integration.cpp, which write their results into the registry
VARIABLES g_sharedBuffer, g_namedBuffers, g_bufferPool, crashed, last,
          threads, start, heap, object, external, g_v8Engine, g_quickjsEngine

vars == <<g_sharedBuffer, g_namedBuffers, g_bufferPool, crashed, last, threads, start,
          heap, object, external, g_v8Engine, g_quickjsEngine>>
registry == <<g_sharedBuffer, g_namedBuffers, g_bufferPool>>
conc == <<threads, start>>
solo == <<object, external>>
engines == <<g_v8Engine, g_quickjsEngine>>

\* ---------------------------------------------------------------- helpers
\* an empty std::unique_ptr<ByteBuffer>
nullptr == [null |-> TRUE]

\* jint / jsize -> size_t conversion at a call boundary
ToSizeT(i) == i % SizeMod

\* index set of a memcpy / memset of n bytes
Span(n) == 1 .. n

\* bytes of storage held by a unique_ptr
HeldBytes(p) == IF p = nullptr THEN 0 ELSE IF p.is_owner THEN p.capacity ELSE 0

RECURSIVE MapBytes(_, _)
MapBytes(m, ks) ==
    IF ks = {} THEN 0
    ELSE LET k == CHOOSE x \in ks : TRUE
         IN  HeldBytes(m[k]) + MapBytes(m, ks \ {k})

\* storage currently allocated by the registry
Allocated == HeldBytes(g_sharedBuffer) + MapBytes(g_namedBuffers, DOMAIN g_namedBuffers)

\* new uint8_t[capacity] succeeds iff the heap still has that many bytes;
\* otherwise it throws std::bad_alloc
CanAllocate(capacity) == capacity <= HeapBytes - Allocated

\* ByteBuffer(size_t cap): size(0), capacity(cap), is_owner(true), zeroed data
ByteBuffer(cap) ==
    [data |-> [i \in Span(cap) |-> 0], size |-> 0, capacity |-> cap, is_owner |-> TRUE]

\* no storage handed out.  live[c] counts the arrays of c bytes that are
\* allocated; bad records a delete[] of an array that is not allocated
EmptyHeap == [live |-> [c \in 0 .. HeapBytes |-> 0], bad |-> FALSE]

\* data = new uint8_t[capacity] in ByteBuffer(size_t cap)
ByteBuffer_new(h, cap) == [h EXCEPT !.live[cap] = @ + 1]

\* a destructor test that forgets is_owner
Releases_any(p) == p # nullptr

\* if (is_owner && data): the destructor of the buffer p points to calls delete[]
Releases(p) == p # nullptr /\ p.is_owner

\* a destructor that never calls delete[]
ByteBuffer_dtor_leaky(h, p) == h

\* ~ByteBuffer, run by the unique_ptr that gives p up
ByteBuffer_dtor(h, p) ==
    IF ~Releases(p) THEN h
    ELSE IF p.capacity \notin DOMAIN h.live \/ h.live[p.capacity] = 0
    THEN [h EXCEPT !.bad = TRUE]
    ELSE [h EXCEPT !.live[p.capacity] = @ - 1]

\* g_namedBuffers.clear(): every entry's destructor runs
RECURSIVE MapDtor(_, _, _)
MapDtor(h, m, ks) ==
    IF ks = {} THEN h
    ELSE LET k == CHOOSE x \in ks : TRUE
         IN  MapDtor(ByteBuffer_dtor(h, m[k]), m, ks \ {k})

\* no caller memory wrapped
NoRegion == [len |-> 0, released |-> FALSE]

\* the overflow test with an off-by-one bound (lets one byte too many through)
WriteRejected_lax(b, len) == (b.size + len) % SizeMod > b.capacity + 1

\* the overflow test with >= instead of > (rejects the write that fills the buffer)
WriteRejected_strict(b, len) == (b.size + len) % SizeMod >= b.capacity

\* the overflow test of ByteBuffer::write, in size_t arithmetic
WriteRejected(b, len) == (b.size + len) % SizeMod > b.capacity

\* a write that copies what fits before it tests for overflow
ByteBuffer_write_truncating(b, src) ==
    IF WriteRejected(b, Len(src))
    THEN [b EXCEPT !.data = [i \in DOMAIN b.data |->
                                IF i > b.size /\ i <= b.size + Len(src)
                                THEN src[i - b.size] ELSE b.data[i]],
                   !.size = b.capacity]
    ELSE [b EXCEPT !.data = [i \in DOMAIN b.data |->
                                IF i > b.size /\ i <= b.size + Len(src)
                                THEN src[i - b.size] ELSE b.data[i]],
                   !.size = b.size + Len(src)]

\* ByteBuffer::write: the buffer after the call
ByteBuffer_write(b, src) ==
    IF WriteRejected(b, Len(src)) THEN b
    ELSE [b EXCEPT !.data = [i \in DOMAIN b.data |->
                                IF i > b.size /\ i <= b.size + Len(src)
                                THEN src[i - b.size] ELSE b.data[i]],
                   !.size = b.size + Len(src)]

\* ByteBuffer::write: its return value
ByteBuffer_write_ok(b, src) == ~WriteRejected(b, Len(src))

\* the underflow test of ByteBuffer::read, in size_t arithmetic
ReadRejected(b, len, offset) == (offset + len) % SizeMod > b.size

\* memcpy(dest, data + offset, len) stays inside the allocation
ReadInBounds(b, len, offset) == offset + len <= b.capacity

\* a read that fills dest back to front
ByteBuffer_read_reversed(b, len, offset) ==
    [i \in Span(len) |-> b.data[offset + len + 1 - i]]

\* ByteBuffer::read, when all of [offset, offset+len) is inside the storage
ByteBuffer_read(b, len, offset) == [i \in Span(len) |-> b.data[offset + i]]

\* a clear that also gives the storage up (capacity 0)
ByteBuffer_clear_shrinking(b) ==
    [b EXCEPT !.size = 0, !.capacity = 0, !.data = <<>>]

\* a clear that resets the cursor and leaves the bytes
ByteBuffer_clear_sizeonly(b) == [b EXCEPT !.size = 0]

\* ByteBuffer::clear
ByteBuffer_clear(b) ==
    [b EXCEPT !.size = 0, !.data = [i \in DOMAIN b.data |-> 0]]

\* insert-if-absent instead of assignment through operator[]
MapPut_insert(m, key, value) ==
    IF key \in DOMAIN m THEN m
    ELSE [k \in DOMAIN m \cup {key} |-> IF k = key THEN value ELSE m[k]]

\* g_namedBuffers[key] = value
MapPut(m, key, value) ==
    [k \in DOMAIN m \cup {key} |-> IF k = key THEN value ELSE m[k]]

\* a thread that is not inside a call.  pc is the statement the thread is
\* at, s the value of size it loaded, freed whether the buffer it resolved
\* has been destroyed since, dangling whether it went on to use it, alone
\* whether no other call ran between its first and last step
IdleThread ==
    [pc |-> "idle", op |-> "none", name |-> NoName, data |-> <<>>, len |-> 0,
     offset |-> 0, s |-> 0, freed |-> FALSE, dangling |-> FALSE, alone |-> TRUE,
     ok |-> FALSE, out |-> <<>>]

\* the record of the last call and what it returned
Call(op, via, name, data, len, offset, ok, out) ==
    [op |-> op, via |-> via, name |-> name, data |-> data, len |-> len,
     offset |-> offset, ok |-> ok, out |-> out]

\* ---------------------------------------------------------------- initial state
Init ==
    /\ g_sharedBuffer = nullptr
    /\ g_namedBuffers = [k \in {} |-> nullptr]
    /\ g_bufferPool = <<>>
    /\ crashed = FALSE
    /\ last = Call("none", "none", NoName, <<>>, 0, 0, TRUE, <<>>)
    /\ threads = [i \in Threads |-> IdleThread]
    /\ start = <<g_sharedBuffer, g_namedBuffers>>
    /\ heap = EmptyHeap
    /\ object = nullptr
    /\ external = NoRegion
    /\ g_v8Engine = nullptr
    /\ g_quickjsEngine = nullptr

\* ---------------------------------------------------------------- ByteTransferBridge
\* an initialise that keeps a default buffer that is already there
nativeInitializeByteTransfer_once(bufferSize) ==
    /\ ~crashed
    /\ UNCHANGED conc
    /\ UNCHANGED solo
    /\ UNCHANGED engines
    /\ heap' = IF CanAllocate(ToSizeT(bufferSize)) /\ g_sharedBuffer = nullptr
               THEN ByteBuffer_new(heap, ToSizeT(bufferSize)) ELSE heap
    /\ IF CanAllocate(ToSizeT(bufferSize))
       THEN /\ g_sharedBuffer' = IF g_sharedBuffer = nullptr
                                 THEN ByteBuffer(ToSizeT(bufferSize))
                                 ELSE g_sharedBuffer
            /\ last' = Call("init", "jni", NoName, <<>>, bufferSize, 0, TRUE, <<>>)
       ELSE /\ g_sharedBuffer' = g_sharedBuffer
            /\ last' = Call("init", "jni", NoName, <<>>, bufferSize, 0, FALSE, <<>>)
    /\ UNCHANGED <<g_namedBuffers, g_bufferPool, crashed>>

nativeInitializeByteTransfer(bufferSize) ==
    /\ ~crashed
    /\ UNCHANGED conc
    /\ UNCHANGED solo
    /\ UNCHANGED engines
    /\ heap' = IF CanAllocate(ToSizeT(bufferSize))
               THEN ByteBuffer_dtor(ByteBuffer_new(heap, ToSizeT(bufferSize)), g_sharedBuffer)
               ELSE heap
    /\ IF CanAllocate(ToSizeT(bufferSize))
       THEN /\ g_sharedBuffer' = ByteBuffer(ToSizeT(bufferSize))
            /\ last' = Call("init", "jni", NoName, <<>>, bufferSize, 0, TRUE, <<>>)
       ELSE /\ g_sharedBuffer' = g_sharedBuffer
            /\ last' = Call("init", "jni", NoName, <<>>, bufferSize, 0, FALSE, <<>>)
    /\ UNCHANGED <<g_namedBuffers, g_bufferPool, crashed>>

\* g_namedBuffers after a create whose allocation threw: the map is untouched
\* when make_unique is evaluated before operator[], and holds an empty
\* unique_ptr under a new key when operator[] is evaluated first
CreateFailedMaps(name) ==
    {g_namedBuffers} \cup
    (IF name \in DOMAIN g_namedBuffers THEN {}
     ELSE {MapPut(g_namedBuffers, name, nullptr)})

nativeCreateNamedBuffer(name, size) ==
    /\ ~crashed
    /\ UNCHANGED conc
    /\ UNCHANGED solo
    /\ UNCHANGED engines
    /\ heap' = IF CanAllocate(ToSizeT(size))
               THEN ByteBuffer_dtor(ByteBuffer_new(heap, ToSizeT(size)),
                                    IF name \in DOMAIN g_namedBuffers
                                    THEN g_namedBuffers[name] ELSE nullptr)
               ELSE heap
    /\ IF CanAllocate(ToSizeT(size))
       THEN /\ g_namedBuffers' = MapPut(g_namedBuffers, name, ByteBuffer(ToSizeT(size)))
            /\ last' = Call("create", "jni", name, <<>>, size, 0, TRUE, <<>>)
       ELSE /\ g_namedBuffers' \in CreateFailedMaps(name)
            /\ last' = Call("create", "jni", name, <<>>, size, 0, FALSE, <<>>)
    /\ UNCHANGED <<g_sharedBuffer, g_bufferPool, crashed>>

\* a default-buffer write that starts over at the front of the storage
nativeWriteBytes_overwriting(data) ==
    /\ ~crashed
    /\ UNCHANGED conc
    /\ UNCHANGED solo
    /\ UNCHANGED engines
    /\ UNCHANGED heap
    /\ IF g_sharedBuffer = nullptr
       THEN /\ g_sharedBuffer' = g_sharedBuffer
            /\ last' = Call("write", "jni", NoName, data, Len(data), 0, FALSE, <<>>)
       ELSE /\ g_sharedBuffer' = ByteBuffer_write(ByteBuffer_clear(g_sharedBuffer), data)
            /\ last' = Call("write", "jni", NoName, data, Len(data), 0,
                            ByteBuffer_write_ok(ByteBuffer_clear(g_sharedBuffer), data), <<>>)
    /\ UNCHANGED <<g_namedBuffers, g_bufferPool, crashed>>

nativeWriteBytes(data) ==
    /\ ~crashed
    /\ UNCHANGED conc
    /\ UNCHANGED solo
    /\ UNCHANGED engines
    /\ UNCHANGED heap
    /\ IF g_sharedBuffer = nullptr
       THEN /\ g_sharedBuffer' = g_sharedBuffer
            /\ last' = Call("write", "jni", NoName, data, Len(data), 0, FALSE, <<>>)
       ELSE /\ g_sharedBuffer' = ByteBuffer_write(g_sharedBuffer, data)
            /\ last' = Call("write", "jni", NoName, data, Len(data), 0,
                            ByteBuffer_write_ok(g_sharedBuffer, data), <<>>)
    /\ UNCHANGED <<g_namedBuffers, g_bufferPool, crashed>>

\* what a caller of ByteBuffer::read can get back.  A read the test lets
\* through although [offset, offset+len) leaves the storage (offset + len
\* wrapped) is an out-of-bounds memcpy: the process faults, or the bytes
\* outside the storage are whatever memory holds there
WildReads(b, len, offset) ==
    {s \in [Span(len) -> Bytes] :
        \A i \in Span(len) :
            (offset + i - 1) % SizeMod < b.capacity
                => s[i] = b.data[((offset + i - 1) % SizeMod) + 1]}

\* a read that hands back its zero-filled scratch vector when the test fails
ReadOutcomes_leaky(b, len, offset) ==
    IF ReadRejected(b, len, offset)
    THEN {[crash |-> FALSE, ok |-> FALSE, out |-> [i \in Span(len) |-> 0]]}
    ELSE IF ReadInBounds(b, len, offset)
    THEN {[crash |-> FALSE, ok |-> TRUE, out |-> ByteBuffer_read(b, len, offset)]}
    ELSE {[crash |-> TRUE, ok |-> FALSE, out |-> <<>>]} \cup
         {[crash |-> FALSE, ok |-> TRUE, out |-> s] : s \in WildReads(b, len, offset)}

ReadOutcomes(b, len, offset) ==
    IF ReadRejected(b, len, offset)
    THEN {[crash |-> FALSE, ok |-> FALSE, out |-> <<>>]}
    ELSE IF ReadInBounds(b, len, offset)
    THEN {[crash |-> FALSE, ok |-> TRUE, out |-> ByteBuffer_read(b, len, offset)]}
    ELSE {[crash |-> TRUE, ok |-> FALSE, out |-> <<>>]} \cup
         {[crash |-> FALSE, ok |-> TRUE, out |-> s] : s \in WildReads(b, len, offset)}

\* a named write that, once the name is found, appends to the shared buffer
nativeWriteBytesToNamed_shared(name, data) ==
    /\ ~crashed
    /\ UNCHANGED conc
    /\ UNCHANGED solo
    /\ UNCHANGED engines
    /\ UNCHANGED heap
    /\ IF name \notin DOMAIN g_namedBuffers \/ g_sharedBuffer = nullptr
       THEN /\ UNCHANGED <<g_sharedBuffer, crashed>>
            /\ last' = Call("write", "jni", name, data, Len(data), 0, FALSE, <<>>)
       ELSE /\ g_sharedBuffer' = ByteBuffer_write(g_sharedBuffer, data)
            /\ last' = Call("write", "jni", name, data, Len(data), 0,
                            ByteBuffer_write_ok(g_sharedBuffer, data), <<>>)
            /\ UNCHANGED crashed
    /\ UNCHANGED <<g_namedBuffers, g_bufferPool>>

nativeWriteBytesToNamed(name, data) ==
    /\ ~crashed
    /\ UNCHANGED conc
    /\ UNCHANGED solo
    /\ UNCHANGED engines
    /\ UNCHANGED heap
    /\ IF name \notin DOMAIN g_namedBuffers
       THEN /\ UNCHANGED <<g_namedBuffers, crashed>>
            /\ last' = Call("write", "jni", name, data, Len(data), 0, FALSE, <<>>)
       ELSE IF g_namedBuffers[name] = nullptr
       THEN \* it->second->write on an empty unique_ptr
            /\ crashed' = TRUE
            /\ UNCHANGED g_namedBuffers
            /\ last' = Call("write", "jni", name, data, Len(data), 0, FALSE, <<>>)
       ELSE /\ g_namedBuffers' = [g_namedBuffers EXCEPT
                                    ![name] = ByteBuffer_write(@, data)]
            /\ last' = Call("write", "jni", name, data, Len(data), 0,
                            ByteBuffer_write_ok(g_namedBuffers[name], data), <<>>)
            /\ UNCHANGED crashed
    /\ UNCHANGED <<g_sharedBuffer, g_bufferPool>>

nativeReadBytes(length, offset) ==
    /\ ~crashed
    /\ UNCHANGED conc
    /\ UNCHANGED solo
    /\ UNCHANGED engines
    /\ UNCHANGED heap
    /\ IF g_sharedBuffer = nullptr
       THEN /\ last' = Call("read", "jni", NoName, <<>>, length, offset, FALSE, <<>>)
            /\ UNCHANGED crashed
       ELSE IF length <= 0 \/ offset < 0
       THEN /\ last' = Call("read", "jni", NoName, <<>>, length, offset, FALSE, <<>>)
            /\ UNCHANGED crashed
       ELSE \E r \in ReadOutcomes(g_sharedBuffer, ToSizeT(length), ToSizeT(offset)) :
                /\ last' = Call("read", "jni", NoName, <<>>, length, offset, r.ok, r.out)
                /\ crashed' = r.crash
    /\ UNCHANGED registry

\* a named read that consumes what it returns (pulls the cursor back)
nativeReadBytesFromNamed_draining(name, length, offset) ==
    /\ ~crashed
    /\ UNCHANGED conc
    /\ UNCHANGED solo
    /\ UNCHANGED engines
    /\ UNCHANGED heap
    /\ IF name \notin DOMAIN g_namedBuffers
       THEN /\ last' = Call("read", "jni", name, <<>>, length, offset, FALSE, <<>>)
            /\ UNCHANGED <<g_namedBuffers, crashed>>
       ELSE IF length <= 0 \/ offset < 0
       THEN /\ last' = Call("read", "jni", name, <<>>, length, offset, FALSE, <<>>)
            /\ UNCHANGED <<g_namedBuffers, crashed>>
       ELSE IF g_namedBuffers[name] = nullptr
       THEN /\ last' = Call("read", "jni", name, <<>>, length, offset, FALSE, <<>>)
            /\ crashed' = TRUE
            /\ UNCHANGED g_namedBuffers
       ELSE \E r \in ReadOutcomes(g_namedBuffers[name], ToSizeT(length), ToSizeT(offset)) :
                /\ last' = Call("read", "jni", name, <<>>, length, offset, r.ok, r.out)
                /\ crashed' = r.crash
                /\ g_namedBuffers' =
                      IF r.ok THEN [g_namedBuffers EXCEPT ![name].size = @ - length]
                      ELSE g_namedBuffers
    /\ UNCHANGED <<g_sharedBuffer, g_bufferPool>>

nativeReadBytesFromNamed(name, length, offset) ==
    /\ ~crashed
    /\ UNCHANGED conc
    /\ UNCHANGED solo
    /\ UNCHANGED engines
    /\ UNCHANGED heap
    /\ IF name \notin DOMAIN g_namedBuffers
       THEN /\ last' = Call("read", "jni", name, <<>>, length, offset, FALSE, <<>>)
            /\ UNCHANGED crashed
       ELSE IF length <= 0 \/ offset < 0
       THEN /\ last' = Call("read", "jni", name, <<>>, length, offset, FALSE, <<>>)
            /\ UNCHANGED crashed
       ELSE IF g_namedBuffers[name] = nullptr
       THEN /\ last' = Call("read", "jni", name, <<>>, length, offset, FALSE, <<>>)
            /\ crashed' = TRUE
       ELSE \E r \in ReadOutcomes(g_namedBuffers[name], ToSizeT(length), ToSizeT(offset)) :
                /\ last' = Call("read", "jni", name, <<>>, length, offset, r.ok, r.out)
                /\ crashed' = r.crash
    /\ UNCHANGED registry

\* a clear that falls back to the shared buffer when the name is not found
nativeClearBuffer_fallback(name) ==
    /\ ~crashed
    /\ UNCHANGED conc
    /\ UNCHANGED solo
    /\ UNCHANGED engines
    /\ UNCHANGED heap
    /\ last' = Call("clear", "jni", name, <<>>, 0, 0, TRUE, <<>>)
    /\ IF name = NoName \/ name \notin DOMAIN g_namedBuffers
       THEN /\ g_sharedBuffer' = IF g_sharedBuffer = nullptr THEN g_sharedBuffer
                                 ELSE ByteBuffer_clear(g_sharedBuffer)
            /\ UNCHANGED <<g_namedBuffers, crashed>>
       ELSE IF g_namedBuffers[name] = nullptr
       THEN /\ crashed' = TRUE
            /\ UNCHANGED <<g_sharedBuffer, g_namedBuffers>>
       ELSE /\ g_namedBuffers' = [g_namedBuffers EXCEPT ![name] = ByteBuffer_clear(@)]
            /\ UNCHANGED <<g_sharedBuffer, crashed>>
    /\ UNCHANGED g_bufferPool

\* name = NoName is the null jstring
nativeClearBuffer(name) ==
    /\ ~crashed
    /\ UNCHANGED conc
    /\ UNCHANGED solo
    /\ UNCHANGED engines
    /\ UNCHANGED heap
    /\ last' = Call("clear", "jni", name, <<>>, 0, 0, TRUE, <<>>)
    /\ IF name = NoName
       THEN /\ g_sharedBuffer' = IF g_sharedBuffer = nullptr THEN g_sharedBuffer
                                 ELSE ByteBuffer_clear(g_sharedBuffer)
            /\ UNCHANGED <<g_namedBuffers, crashed>>
       ELSE IF name \notin DOMAIN g_namedBuffers
       THEN UNCHANGED <<g_sharedBuffer, g_namedBuffers, crashed>>
       ELSE IF g_namedBuffers[name] = nullptr
       THEN /\ crashed' = TRUE
            /\ UNCHANGED <<g_sharedBuffer, g_namedBuffers>>
       ELSE /\ g_namedBuffers' = [g_namedBuffers EXCEPT ![name] = ByteBuffer_clear(@)]
            /\ UNCHANGED <<g_sharedBuffer, crashed>>
    /\ UNCHANGED g_bufferPool

\* a cleanup that forgets the named buffers
nativeCleanup_sharedonly ==
    /\ ~crashed
    /\ UNCHANGED conc
    /\ UNCHANGED solo
    /\ UNCHANGED engines
    /\ heap' = ByteBuffer_dtor(heap, g_sharedBuffer)
    /\ g_sharedBuffer' = nullptr
    /\ g_bufferPool' = <<>>
    /\ g_namedBuffers' = g_namedBuffers
    /\ last' = Call("cleanup", "jni", NoName, <<>>, 0, 0, TRUE, <<>>)
    /\ UNCHANGED crashed

nativeCleanup ==
    /\ ~crashed
    /\ UNCHANGED conc
    /\ UNCHANGED solo
    /\ UNCHANGED engines
    /\ heap' = MapDtor(ByteBuffer_dtor(heap, g_sharedBuffer),
                       g_namedBuffers, DOMAIN g_namedBuffers)
    /\ g_sharedBuffer' = nullptr
    /\ g_bufferPool' = <<>>
    /\ g_namedBuffers' = [k \in {} |-> nullptr]
    /\ last' = Call("cleanup", "jni", NoName, <<>>, 0, 0, TRUE, <<>>)
    /\ UNCHANGED crashed

\* ---------------------------------------------------------------- native interface
\* a write that falls back to the shared buffer when the name is not found
bytetransfer_write_from_v8_fallback(data, buffer_name, ok) ==
    IF buffer_name # NoName /\ buffer_name \in DOMAIN g_namedBuffers
    THEN IF g_namedBuffers[buffer_name] = nullptr
         THEN /\ crashed' = TRUE
              /\ ok = FALSE
              /\ UNCHANGED <<g_sharedBuffer, g_namedBuffers>>
         ELSE /\ g_namedBuffers' = [g_namedBuffers EXCEPT
                                      ![buffer_name] = ByteBuffer_write(@, data)]
              /\ ok = ByteBuffer_write_ok(g_namedBuffers[buffer_name], data)
              /\ UNCHANGED <<g_sharedBuffer, crashed>>
    ELSE IF g_sharedBuffer # nullptr
    THEN /\ g_sharedBuffer' = ByteBuffer_write(g_sharedBuffer, data)
         /\ ok = ByteBuffer_write_ok(g_sharedBuffer, data)
         /\ UNCHANGED <<g_namedBuffers, crashed>>
    ELSE /\ ok = FALSE
         /\ UNCHANGED <<g_sharedBuffer, g_namedBuffers, crashed>>

\* bytetransfer_write_from_v8(data, length, buffer_name); ok is its return value
bytetransfer_write_from_v8(data, buffer_name, ok) ==
    IF buffer_name # NoName
    THEN IF buffer_name \in DOMAIN g_namedBuffers
         THEN IF g_namedBuffers[buffer_name] = nullptr
              THEN /\ crashed' = TRUE
                   /\ ok = FALSE
                   /\ UNCHANGED <<g_sharedBuffer, g_namedBuffers>>
              ELSE /\ g_namedBuffers' = [g_namedBuffers EXCEPT
                                           ![buffer_name] = ByteBuffer_write(@, data)]
                   /\ ok = ByteBuffer_write_ok(g_namedBuffers[buffer_name], data)
                   /\ UNCHANGED <<g_sharedBuffer, crashed>>
         ELSE /\ ok = FALSE
              /\ UNCHANGED <<g_sharedBuffer, g_namedBuffers, crashed>>
    ELSE IF g_sharedBuffer # nullptr
    THEN /\ g_sharedBuffer' = ByteBuffer_write(g_sharedBuffer, data)
         /\ ok = ByteBuffer_write_ok(g_sharedBuffer, data)
         /\ UNCHANGED <<g_namedBuffers, crashed>>
    ELSE /\ ok = FALSE
         /\ UNCHANGED <<g_sharedBuffer, g_namedBuffers, crashed>>

\* bytetransfer_read_for_v8(dest, length, offset, buffer_name) on registry
\* (shared, named): the set of (crash, return value, bytes left in dest)
bytetransfer_read_for_v8(shared, named, length, offset, buffer_name) ==
    IF buffer_name # NoName
    THEN IF buffer_name \in DOMAIN named
         THEN IF named[buffer_name] = nullptr
              THEN {[crash |-> TRUE, ok |-> FALSE, out |-> <<>>]}
              ELSE ReadOutcomes(named[buffer_name], length, offset)
         ELSE {[crash |-> FALSE, ok |-> FALSE, out |-> <<>>]}
    ELSE IF shared # nullptr
    THEN ReadOutcomes(shared, length, offset)
    ELSE {[crash |-> FALSE, ok |-> FALSE, out |-> <<>>]}

\* an info that takes the empty name for the absent one
bytetransfer_get_info_emptyIsNull(shared, named, buffer_name) ==
    LET buffer == IF buffer_name # NoName /\ buffer_name # ""
                  THEN IF buffer_name \in DOMAIN named THEN named[buffer_name]
                       ELSE nullptr
                  ELSE shared
    IN  IF buffer # nullptr
        THEN [ok |-> TRUE, out |-> <<buffer.size, buffer.capacity>>]
        ELSE [ok |-> FALSE, out |-> <<>>]

\* bytetransfer_get_info(&size, &capacity, buffer_name): return value and the
\* pair it stores on success
bytetransfer_get_info(shared, named, buffer_name) ==
    LET buffer == IF buffer_name # NoName
                  THEN IF buffer_name \in DOMAIN named THEN named[buffer_name]
                       ELSE nullptr
                  ELSE shared
    IN  IF buffer # nullptr
        THEN [ok |-> TRUE, out |-> <<buffer.size, buffer.capacity>>]
        ELSE [ok |-> FALSE, out |-> <<>>]

\* ---------------------------------------------------------------- V8Bridge / QuickJSBridge
\* a null jbyteArray
NullArray == <<-1>>
DataArgs == Payloads \cup {NullArray}

\* V8Bridge.nativeTestByteTransfer; nativeTransferBytesToBuffer and
\* QuickJSBridge.nativeTestByteTransfer are the same code
V8Bridge_nativeTestByteTransfer(data, bufferName) ==
    /\ ~crashed
    /\ UNCHANGED conc
    /\ UNCHANGED solo
    /\ UNCHANGED engines
    /\ UNCHANGED heap
    /\ IF data = NullArray
       THEN /\ last' = Call("write", "v8", bufferName, data, -1, 0, FALSE, <<>>)
            /\ UNCHANGED <<g_sharedBuffer, g_namedBuffers, crashed>>
       ELSE \E ok \in BOOLEAN :
                /\ bytetransfer_write_from_v8(data, bufferName, ok)
                /\ last' = Call("write", "v8", bufferName, data, Len(data), 0, ok, <<>>)
    /\ UNCHANGED g_bufferPool

\* V8Bridge.nativeReadBytesFromTransfer; nativeReadBytesFromBuffer and
\* QuickJSBridge.nativeReadBytesFromTransfer are the same code
V8Bridge_nativeReadBytesFromTransfer(length, offset, bufferName) ==
    /\ ~crashed
    /\ UNCHANGED conc
    /\ UNCHANGED solo
    /\ UNCHANGED engines
    /\ UNCHANGED heap
    /\ IF length <= 0
       THEN /\ last' = Call("read", "v8", bufferName, <<>>, length, offset, FALSE, <<>>)
            /\ UNCHANGED crashed
       ELSE \E r \in bytetransfer_read_for_v8(g_sharedBuffer, g_namedBuffers,
                                              ToSizeT(length), ToSizeT(offset), bufferName) :
                /\ last' = Call("read", "v8", bufferName, <<>>, length, offset, r.ok, r.out)
                /\ crashed' = r.crash
    /\ UNCHANGED registry

\* an info that rewinds the default buffer's cursor after reporting it
V8Bridge_nativeGetByteTransferInfo_rewinding(bufferName) ==
    /\ ~crashed
    /\ UNCHANGED conc
    /\ UNCHANGED solo
    /\ UNCHANGED engines
    /\ UNCHANGED heap
    /\ LET r == bytetransfer_get_info(g_sharedBuffer, g_namedBuffers, bufferName)
       IN  last' = Call("info", "v8", bufferName, <<>>, 0, 0, r.ok, r.out)
    /\ g_sharedBuffer' = IF g_sharedBuffer = nullptr THEN nullptr
                         ELSE [g_sharedBuffer EXCEPT !.size = 0]
    /\ UNCHANGED <<g_namedBuffers, g_bufferPool, crashed>>

\* V8Bridge.nativeGetByteTransferInfo; nativeGetBufferInfoFromV8 is the same code
V8Bridge_nativeGetByteTransferInfo(bufferName) ==
    /\ ~crashed
    /\ UNCHANGED conc
    /\ UNCHANGED solo
    /\ UNCHANGED engines
    /\ UNCHANGED heap
    /\ LET r == bytetransfer_get_info(g_sharedBuffer, g_namedBuffers, bufferName)
       IN  last' = Call("info", "v8", bufferName, <<>>, 0, 0, r.ok, r.out)
    /\ UNCHANGED <<registry, crashed>>

\* the payload of the self-test ("Hello from V8 integration test!", scaled)
testData == [i \in Span(MaxLen) |-> 1]

\* V8Bridge.nativeRunV8ByteTransferTests: write testData to the shared buffer,
\* read the same number of bytes back from offset 0, compare, ask for the info.
\* out = <<writeSuccess, readSuccess, dataMatch, infoSuccess>>, ok = allPassed
V8Bridge_nativeRunV8ByteTransferTests ==
    /\ ~crashed
    /\ UNCHANGED conc
    /\ UNCHANGED solo
    /\ UNCHANGED engines
    /\ UNCHANGED heap
    /\ \E writeSuccess \in BOOLEAN :
         /\ bytetransfer_write_from_v8(testData, NoName, writeSuccess)
         /\ \E r \in bytetransfer_read_for_v8(g_sharedBuffer', g_namedBuffers',
                                              Len(testData), 0, NoName) :
              LET dataMatch == r.ok /\ r.out = testData
                  info == bytetransfer_get_info(g_sharedBuffer', g_namedBuffers', NoName)
              IN  last' = Call("selftest", "v8", NoName, testData, Len(testData), 0,
                               writeSuccess /\ r.ok /\ dataMatch /\ info.ok,
                               <<writeSuccess, r.ok, dataMatch, info.ok>>)
    /\ UNCHANGED g_bufferPool

Next ==
    \/ \E c \in CapArgs : nativeInitializeByteTransfer(c)
    \/ \E n \in NameArgs, c \in CapArgs : nativeCreateNamedBuffer(n, c)
    \/ \E p \in Payloads : nativeWriteBytes(p)
    \/ \E n \in NameArgs, p \in Payloads : nativeWriteBytesToNamed(n, p)
    \/ \E l \in LenArgs, o \in OffArgs : nativeReadBytes(l, o)
    \/ \E n \in NameArgs, l \in LenArgs, o \in OffArgs : nativeReadBytesFromNamed(n, l, o)
    \/ \E t \in TargetArgs : nativeClearBuffer(t)
    \/ nativeCleanup
    \/ \E t \in TargetArgs, p \in DataArgs : V8Bridge_nativeTestByteTransfer(p, t)
    \/ \E t \in TargetArgs, l \in LenArgs, o \in OffArgs :
           V8Bridge_nativeReadBytesFromTransfer(l, o, t)
    \/ \E t \in TargetArgs : V8Bridge_nativeGetByteTransferInfo(t)
    \/ V8Bridge_nativeRunV8ByteTransferTests

Spec == Init /\ [][Next]_vars

\* ---------------------------------------------------------------- vocabulary of the properties
\* the buffer a target resolves to in registry (shared, named); nullptr when
\* it resolves to nothing
TargetIn(shared, named, t) ==
    IF t = NoName THEN shared
    ELSE IF t \in DOMAIN named THEN named[t] ELSE nullptr

Target(t) == TargetIn(g_sharedBuffer, g_namedBuffers, t)

\* the call recorded in l is a write of a payload (by any entry point,
\* the self-test's write included) whose target resolves to a buffer
IsWrite(l) == l.op \in {"write", "selftest"} /\ l.data # NullArray

\* the success flag of the write recorded in call record l
WriteOk(l) == IF l.op = "selftest" THEN l.out[1] ELSE l.ok

AllZero(b) == \A i \in DOMAIN b.data : b.data[i] = 0

\* ---------------------------------------------------------------- C1
\* C1: in every reachable state every buffer the registry holds (the default
\* buffer and each named buffer) has 0 <= size <= capacity.
C1_SizeWithinCapacity ==
    \A t \in TargetArgs :
        Target(t) # nullptr => 0 <= Target(t).size /\ Target(t).size <= Target(t).capacity

\* a full default buffer has just rejected a write while a named buffer holds data
C1_Witness ==
    /\ last.op = "write" /\ last.name = NoName /\ ~last.ok /\ last.len > 0
    /\ g_sharedBuffer # nullptr
    /\ g_sharedBuffer.capacity > 0
    /\ g_sharedBuffer.size = g_sharedBuffer.capacity
    /\ \E n \in DOMAIN g_namedBuffers :
          g_namedBuffers[n] # nullptr /\ g_namedBuffers[n].size > 0

\* ---------------------------------------------------------------- C2
\* C2: a write of len bytes to a buffer with size + len > capacity fails and
\* changes nothing: no buffer's size or bytes differ after the call.
C2_OverflowWriteChangesNothing ==
    [][(/\ IsWrite(last')
        /\ Target(last'.name) # nullptr
        /\ Target(last'.name).size + Len(last'.data) > Target(last'.name).capacity)
       => (~WriteOk(last') /\ registry' = registry)]_vars

\* a partly filled buffer has just rejected a write that did not fit
C2_Witness ==
    /\ last.op = "write" /\ ~last.ok /\ ~crashed
    /\ Target(last.name) # nullptr
    /\ Target(last.name).size > 0
    /\ Target(last.name).size < Target(last.name).capacity
    /\ Target(last.name).size + last.len > Target(last.name).capacity

\* ---------------------------------------------------------------- C3
\* C3: a write of len bytes to an existing buffer with size + len <= capacity
\* succeeds, stores the payload at [old size, old size + len), leaves
\* [0, old size) as it was and sets size to old size + len.
C3_FittingWriteAppends ==
    [][LET t == last'.name
           p == last'.data
           old == Target(t)
           new == TargetIn(g_sharedBuffer', g_namedBuffers', t)
       IN  (IsWrite(last') /\ old # nullptr /\ old.size + Len(p) <= old.capacity)
                => /\ WriteOk(last')
                   /\ new # nullptr
                   /\ new.size = old.size + Len(p)
                   /\ new.capacity = old.capacity
                   /\ DOMAIN new.data = DOMAIN old.data
                   /\ \A i \in 1 .. old.size : new.data[i] = old.data[i]
                   /\ \A i \in 1 .. Len(p) : new.data[old.size + i] = p[i]]_vars

\* a successful non-empty write has just landed behind earlier data
C3_Witness ==
    /\ last.op = "write" /\ last.ok /\ last.len > 0
    /\ Target(last.name) # nullptr
    /\ Target(last.name).size > last.len
    /\ Target(last.name).data[1] # Target(last.name).data[Target(last.name).size]

\* ---------------------------------------------------------------- C4
\* the one outcome of bytetransfer_read_for_v8 that returns bytes p
Returns(p) == {[crash |-> FALSE, ok |-> TRUE, out |-> p]}

C5_ReadPastSizeFails ==
    (/\ last.op = "read"
     /\ Target(last.name) # nullptr
     /\ ToSizeT(last.offset) + ToSizeT(last.len) > Target(last.name).size)
    => ~last.ok

\* ---------------------------------------------------------------- C6
\* C6: on every read entry point a read with length <= 0 or offset < 0 is
\* rejected (absent result) without copying from any buffer.
C6_BadReadArgumentsRejected ==
    (last.op = "read" /\ (last.len <= 0 \/ last.offset < 0))
    => (~last.ok /\ ~crashed)

\* ---------------------------------------------------------------- C7
\* C7: after clear on an existing target, whatever its prior state, the buffer
\* has size 0, every storage byte is zero and the capacity it had before;
\* info on it yields (0, capacity).
C7_ClearResets ==
    [][LET t == last'.name
           old == Target(t)
           new == TargetIn(g_sharedBuffer', g_namedBuffers', t)
       IN  (last'.op = "clear" /\ old # nullptr)
           => /\ ~crashed'
              /\ new # nullptr
              /\ new.size = 0
              /\ new.capacity = old.capacity
              /\ DOMAIN new.data = 1 .. old.capacity
              /\ AllZero(new)
              /\ bytetransfer_get_info(g_sharedBuffer', g_namedBuffers', t)
                    = [ok |-> TRUE, out |-> <<0, old.capacity>>]]_vars

\* a buffer of the largest capacity has just been cleared while another
\* buffer still holds data
C7_Witness ==
    /\ last.op = "clear"
    /\ Target(last.name) # nullptr
    /\ Target(last.name).capacity > 0
    /\ \E u \in TargetArgs \ {last.name} : Target(u) # nullptr /\ Target(u).size > 0

\* ---------------------------------------------------------------- C8
\* C8: clear with a name that is not in the map, or with no name while there
\* is no default buffer, changes nothing: the default slot, the set of names
\* and every buffer are as before, and no entry appears for the name.
C8_ClearMissingIsNoOp ==
    [][(/\ last'.op = "clear"
        /\ \/ last'.name = NoName /\ g_sharedBuffer = nullptr
           \/ last'.name # NoName /\ last'.name \notin DOMAIN g_namedBuffers)
       => (registry' = registry /\ crashed' = crashed)]_vars

\* a clear has just named a buffer that is not in the map while the default
\* buffer holds data
C8_Witness ==
    /\ last.op = "clear"
    /\ last.name # NoName
    /\ last.name \notin DOMAIN g_namedBuffers
    /\ g_sharedBuffer # nullptr
    /\ g_sharedBuffer.size > 0

\* ---------------------------------------------------------------- C9
\* C9: after a successful initialize_default(c) with c > 0 the default buffer
\* has size 0, capacity c and all-zero storage, and the named buffers are
\* what they were.
C9_InitializeDefaultFresh ==
    [][(last'.op = "init" /\ last'.ok /\ last'.len > 0)
       => /\ g_sharedBuffer' # nullptr
          /\ g_sharedBuffer'.size = 0
          /\ g_sharedBuffer'.capacity = last'.len
          /\ DOMAIN g_sharedBuffer'.data = 1 .. last'.len
          /\ AllZero(g_sharedBuffer')
          /\ g_namedBuffers' = g_namedBuffers]_vars

\* the default buffer has just been initialised while a named buffer holds data
C9_Witness ==
    /\ last.op = "init" /\ last.ok /\ last.len > 0
    /\ g_sharedBuffer # nullptr /\ g_sharedBuffer.size = 0
    /\ \E n \in DOMAIN g_namedBuffers :
          g_namedBuffers[n] # nullptr /\ g_namedBuffers[n].size > 0

\* ---------------------------------------------------------------- C10
\* C10: create_named(name, c) whose allocation succeeds returns success,
\* whether or not the name existed; the entry is then a fresh buffer (size 0,
\* capacity c, all zero) and the default buffer and every other entry are
\* unchanged.
C10_CreateNamedReplaces ==
    [][(last'.op = "create" /\ CanAllocate(ToSizeT(last'.len)))
       => LET n == last'.name IN
          /\ last'.ok
          /\ n \in DOMAIN g_namedBuffers'
          /\ g_namedBuffers'[n] # nullptr
          /\ g_namedBuffers'[n].size = 0
          /\ g_namedBuffers'[n].capacity = ToSizeT(last'.len)
          /\ DOMAIN g_namedBuffers'[n].data = 1 .. ToSizeT(last'.len)
          /\ AllZero(g_namedBuffers'[n])
          /\ g_sharedBuffer' = g_sharedBuffer
          /\ DOMAIN g_namedBuffers' = DOMAIN g_namedBuffers \cup {n}
          /\ \A k \in DOMAIN g_namedBuffers \ {n} :
                g_namedBuffers'[k] = g_namedBuffers[k]]_vars

\* a named buffer has just been created while the default buffer holds data
\* and the other name is in the map
C10_Witness ==
    /\ last.op = "create" /\ last.ok /\ last.len > 0
    /\ g_sharedBuffer # nullptr /\ g_sharedBuffer.size > 0
    /\ DOMAIN g_namedBuffers = NameArgs

\* ---------------------------------------------------------------- C11
\* target t resolves to nothing: a name that is not in the map, or no name
\* while there is no default buffer
Unresolved(t) ==
    IF t = NoName THEN g_sharedBuffer = nullptr ELSE t \notin DOMAIN g_namedBuffers

\* C11: a write, read or info whose target does not resolve fails and leaves
\* the whole registry unchanged; a request for a missing name does not fall
\* back to the default buffer.
C11_UnresolvedTargetFails ==
    [][(last'.op \in {"write", "read", "info", "selftest"} /\ Unresolved(last'.name))
       => (~WriteOk(last') /\ ~last'.ok /\ registry' = registry /\ ~crashed')]_vars

\* a write that would have fitted the default buffer has just failed on a
\* name that is not in the map
C11_Witness ==
    /\ last.op = "write" /\ ~last.ok /\ last.len > 0
    /\ last.name # NoName
    /\ last.name \notin DOMAIN g_namedBuffers
    /\ g_sharedBuffer # nullptr
    /\ g_sharedBuffer.size + last.len <= g_sharedBuffer.capacity

\* ---------------------------------------------------------------- C12
\* the call recorded in l is a write or read that returned failure
Failed(l) == l.op \in {"write", "read"} /\ ~l.ok

\* why the failed call l failed, judged on the registry it ran on
Kind(l) ==
    IF Target(l.name) = nullptr THEN "missing"
    ELSE IF l.op = "read"
    THEN IF l.len <= 0 \/ l.offset < 0 THEN "badargs" ELSE "underflow"
    ELSE IF l.data = NullArray THEN "badargs" ELSE "overflow"

\* what the caller gets back
Result(l) == <<l.ok, l.out>>

Pristine(shared, named, pool) ==
    shared = nullptr /\ DOMAIN named = {} /\ pool = <<>>

\* C13: teardown leaves the pristine registry, and from then on a write, read
\* or info on a target fails (returns failure) for as long as no
\* initialize_default / create_named for that target has succeeded.  Teardown
\* leaves every target without a buffer, so the second part is: a target
\* without a buffer gets one only by a successful initialize_default /
\* create_named for it, and until then every write, read and info on it
\* returns failure.
C13_FailsAfterTeardown ==
    [][/\ last'.op = "cleanup"
          => Pristine(g_sharedBuffer', g_namedBuffers', g_bufferPool')
       /\ \A t \in TargetArgs :
            Target(t) = nullptr =>
              /\ (last'.op \in {"write", "read", "info", "selftest"} /\ last'.name = t)
                    => (~WriteOk(last') /\ ~last'.ok /\ ~crashed')
              /\ TargetIn(g_sharedBuffer', g_namedBuffers', t) # nullptr
                    => (last'.ok /\ last'.name = t /\ last'.op \in {"init", "create"})]_vars

\* ---------------------------------------------------------------- C14
\* C14: teardown is safe in any state and idempotent: it always ends in the
\* pristine registry with no storage held, and on a pristine registry it
\* changes nothing (so nothing is released a second time).
C14_TeardownIdempotent ==
    [][last'.op = "cleanup"
       => /\ ~crashed'
          /\ Pristine(g_sharedBuffer', g_namedBuffers', g_bufferPool')
          /\ HeldBytes(g_sharedBuffer')
               + MapBytes(g_namedBuffers', DOMAIN g_namedBuffers') = 0
          /\ Pristine(g_sharedBuffer, g_namedBuffers, g_bufferPool)
               => registry' = registry]_vars

\* teardown has just run
C14_Witness ==
    /\ last.op = "cleanup" /\ ~crashed
    /\ Pristine(g_sharedBuffer, g_namedBuffers, g_bufferPool)

\* ---------------------------------------------------------------- C15
\* target u is the same before and after the step
SameTarget(u) ==
    IF u = NoName THEN g_sharedBuffer' = g_sharedBuffer
    ELSE /\ (u \in DOMAIN g_namedBuffers') = (u \in DOMAIN g_namedBuffers)
         /\ u \in DOMAIN g_namedBuffers => g_namedBuffers'[u] = g_namedBuffers[u]

\* C15: a write or clear addressed to one target, successful or not, changes
\* at most the buffer under that target: the default buffer and every buffer
\* under another name keep size, capacity and bytes.
C15_Isolation ==
    [][last'.op \in {"write", "clear", "selftest"}
       => \A u \in TargetArgs \ {last'.name} : SameTarget(u)]_vars

\* a write has just landed in a named buffer while the default buffer holds
\* data and the other name is in the map
C15_Witness ==
    /\ last.op = "write" /\ last.ok /\ last.len > 0
    /\ last.name # NoName
    /\ g_sharedBuffer # nullptr /\ g_sharedBuffer.size > 0
    /\ DOMAIN g_namedBuffers = NameArgs

\* ---------------------------------------------------------------- C16
\* C16: write, read, info and clear resolve their target the same way: no
\* name is the default buffer, any name (the empty string included) is the
\* map entry under that key and nothing else.
C16_SameResolution ==
    [][LET l == last'
           old == Target(l.name)
           new == TargetIn(g_sharedBuffer', g_namedBuffers', l.name)
       IN  /\ (l.op = "write" /\ l.data # NullArray)
              => /\ l.ok = (old # nullptr /\ old.size + Len(l.data) <= old.capacity)
                 /\ l.ok => new.size = old.size + Len(l.data)
           /\ l.op = "info"
              => /\ l.ok = (old # nullptr)
                 /\ l.ok => l.out = <<old.size, old.capacity>>
           /\ (l.op = "read" /\ l.ok /\ l.offset >= 0)
              => /\ old # nullptr
                 /\ l.out = [i \in 1 .. l.len |-> old.data[l.offset + i]]
           /\ (l.op = "clear" /\ ~crashed')
              => /\ old # nullptr => (new.size = 0 /\ new.capacity = old.capacity)
                 /\ old = nullptr => registry' = registry]_vars

\* a write has just landed in the buffer named "" while the default buffer
\* is there and empty
C16_Witness ==
    /\ last.op = "write" /\ last.ok /\ last.len > 0
    /\ last.name = ""
    /\ g_sharedBuffer # nullptr /\ g_sharedBuffer.size = 0
    /\ g_namedBuffers[""].size = last.len

\* ---------------------------------------------------------------- C17
\* C17: every name in the map refers to a constructed buffer, also after a
\* create_named whose allocation failed.
C17_EntriesAreBuffers ==
    \A n \in DOMAIN g_namedBuffers : g_namedBuffers[n] # nullptr

\* ---------------------------------------------------------------- overlapping calls
\* The registry has no lock: the host's threads run the functions above at
\* the same time, statement by statement.  Each thread makes one call.  A
\* buffer call is the lookup, then the statements of ByteBuffer::write /
\* read / clear; initialise, create and cleanup are taken as one step each.

\* payloads and lengths of the overlapping calls
ConcPayloads == {[k \in Span(n) |-> 1] : n \in 1 .. MaxLen}
ConcLens == 1 .. MaxLen
ConcCaps == 0 .. HeapBytes

\* buffers that creates and writes leave behind: capacity c, the first s
\* bytes written, the rest still zero
FilledBuffers ==
    UNION {{[ByteBuffer(c) EXCEPT !.size = s,
                                  !.data = [k \in Span(c) |-> IF k <= s THEN 1 ELSE 0]]
            : s \in 0 .. c} : c \in 0 .. HeapBytes}

\* the targets of registry (shared, named) whose buffer owns c bytes of storage
OwnedBy(shared, named, c) ==
    {t \in TargetArgs :
        /\ TargetIn(shared, named, t) # nullptr
        /\ TargetIn(shared, named, t).is_owner
        /\ TargetIn(shared, named, t).capacity = c}

\* the registry the overlapping calls find: any buffers within the heap
InitConc ==
    /\ g_sharedBuffer \in FilledBuffers \cup {nullptr}
    /\ g_namedBuffers \in UNION {[D -> FilledBuffers] : D \in SUBSET NameArgs}
    /\ Allocated <= HeapBytes
    /\ g_bufferPool = <<>>
    /\ crashed = FALSE
    /\ last = Call("none", "none", NoName, <<>>, 0, 0, TRUE, <<>>)
    /\ threads = [i \in Threads |-> IdleThread]
    /\ start = <<g_sharedBuffer, g_namedBuffers>>
    /\ heap = [live |-> [c \in 0 .. HeapBytes |->
                            Cardinality(OwnedBy(g_sharedBuffer, g_namedBuffers, c))],
               bad |-> FALSE]
    /\ object = nullptr
    /\ external = NoRegion
    /\ g_v8Engine = nullptr
    /\ g_quickjsEngine = nullptr

\* the thread is between the first and the last statement of its call
Running(th) == th.pc \notin {"idle", "done"}

\* thread i starts its call as th; the buffers under the targets in
\* destroyed are deleted by it, which leaves the threads that resolved them
\* with a dangling pointer
Enter(i, th, destroyed) ==
    threads' = [j \in Threads |->
        IF j = i
        THEN [th EXCEPT !.alone = \A k \in Threads \ {i} : ~Running(threads[k])]
        ELSE IF Running(threads[j])
             THEN [threads[j] EXCEPT !.alone = FALSE,
                                     !.freed = @ \/ threads[j].name \in destroyed]
             ELSE threads[j]]

\* thread i moves on as th
Step(i, th) == threads' = [threads EXCEPT ![i] = th]

\* assignment through the pointer the thread resolved for target t
Store(t, b) ==
    IF t = NoName
    THEN g_sharedBuffer' = b /\ UNCHANGED g_namedBuffers
    ELSE g_namedBuffers' = [g_namedBuffers EXCEPT ![t] = b] /\ UNCHANGED g_sharedBuffer

\* the lookup a buffer call starts with: g_sharedBuffer for no name,
\* g_namedBuffers.find(key) for a name.  Not found: the call returns failure.
\* Found but empty: write, read and clear call through the null pointer,
\* get_info tests it and returns failure.
Find(i, op, t, data, len, offset, next) ==
    LET th == [IdleThread EXCEPT !.op = op, !.name = t, !.data = data,
                                 !.len = len, !.offset = offset]
    IN  /\ IF IF t = NoName THEN g_sharedBuffer = nullptr
              ELSE t \notin DOMAIN g_namedBuffers
           THEN /\ Enter(i, [th EXCEPT !.pc = "done",
                                       !.ok = (op = "clear")], {})
                /\ UNCHANGED crashed
           ELSE IF t # NoName /\ g_namedBuffers[t] = nullptr
                THEN /\ Enter(i, [th EXCEPT !.pc = "done"], {})
                     /\ crashed' = (op # "info")
                ELSE /\ Enter(i, [th EXCEPT !.pc = next], {})
                     /\ UNCHANGED crashed
        /\ UNCHANGED <<registry, last, start, heap, solo, engines>>

\* the buffer thread i resolved, as it is now
Resolved(i) ==
    IF threads[i].name = NoName THEN g_sharedBuffer
    ELSE g_namedBuffers[threads[i].name]

\* thread i goes on with a buffer that has been deleted: a use after free,
\* which faults or returns anything
Dangle(i) ==
    /\ \E ok \in BOOLEAN :
         Step(i, [threads[i] EXCEPT !.pc = "done", !.dangling = TRUE, !.ok = ok])
    /\ crashed' \in BOOLEAN
    /\ UNCHANGED <<registry, last, start, heap, solo, engines>>

bytetransfer_write_from_v8_find(i, t, data) ==
    /\ ~crashed
    /\ threads[i].pc = "idle"
    /\ Find(i, "write", t, data, Len(data), 0, "write_check")

\* if (size + len > capacity) return false;
ByteBuffer_write_check(i) ==
    /\ ~crashed
    /\ threads[i].pc = "write_check"
    /\ IF threads[i].freed THEN Dangle(i)
       ELSE /\ IF WriteRejected(Resolved(i), threads[i].len)
               THEN Step(i, [threads[i] EXCEPT !.pc = "done", !.ok = FALSE])
               ELSE Step(i, [threads[i] EXCEPT !.pc = "write_memcpy",
                                               !.s = Resolved(i).size])
            /\ UNCHANGED <<registry, crashed, last, start, heap, solo, engines>>

\* memcpy(data + size, src, len): size is the value loaded for the test or a
\* fresh load; a copy that runs past the storage faults or tramples the heap
ByteBuffer_write_memcpy(i) ==
    /\ ~crashed
    /\ threads[i].pc = "write_memcpy"
    /\ IF threads[i].freed THEN Dangle(i)
       ELSE \E at \in {threads[i].s, Resolved(i).size} :
            /\ Store(threads[i].name, [Resolved(i) EXCEPT !.data =
                   [k \in DOMAIN Resolved(i).data |->
                      IF k > at /\ k <= at + threads[i].len
                      THEN threads[i].data[k - at] ELSE Resolved(i).data[k]]])
            /\ Step(i, [threads[i] EXCEPT !.pc = "write_advance"])
            /\ crashed' \in (IF at + threads[i].len > Resolved(i).capacity
                             THEN BOOLEAN ELSE {FALSE})
            /\ UNCHANGED <<g_bufferPool, last, start, heap, solo, engines>>

\* size += len; return true;  (load, add, store: the load may be the one
\* made for the test)
ByteBuffer_write_advance(i) ==
    /\ ~crashed
    /\ threads[i].pc = "write_advance"
    /\ IF threads[i].freed THEN Dangle(i)
       ELSE \E from \in {threads[i].s, Resolved(i).size} :
            /\ Store(threads[i].name,
                     [Resolved(i) EXCEPT !.size = (from + threads[i].len) % SizeMod])
            /\ Step(i, [threads[i] EXCEPT !.pc = "done", !.ok = TRUE])
            /\ UNCHANGED <<g_bufferPool, crashed, last, start, heap, solo, engines>>

bytetransfer_read_for_v8_find(i, t, length, offset) ==
    /\ ~crashed
    /\ threads[i].pc = "idle"
    /\ Find(i, "read", t, <<>>, length, offset, "read_check")

\* if (offset + len > size) return false;
ByteBuffer_read_check(i) ==
    /\ ~crashed
    /\ threads[i].pc = "read_check"
    /\ IF threads[i].freed THEN Dangle(i)
       ELSE /\ IF ReadRejected(Resolved(i), threads[i].len, threads[i].offset)
               THEN Step(i, [threads[i] EXCEPT !.pc = "done", !.ok = FALSE])
               ELSE Step(i, [threads[i] EXCEPT !.pc = "read_memcpy"])
            /\ UNCHANGED <<registry, crashed, last, start, heap, solo, engines>>

\* memcpy(dest, data + offset, len); return true;
ByteBuffer_read_memcpy(i) ==
    /\ ~crashed
    /\ threads[i].pc = "read_memcpy"
    /\ IF threads[i].freed THEN Dangle(i)
       ELSE /\ IF ReadInBounds(Resolved(i), threads[i].len, threads[i].offset)
               THEN /\ Step(i, [threads[i] EXCEPT
                           !.pc = "done", !.ok = TRUE,
                           !.out = ByteBuffer_read(Resolved(i), threads[i].len,
                                                   threads[i].offset)])
                    /\ UNCHANGED crashed
               ELSE /\ \E w \in WildReads(Resolved(i), threads[i].len, threads[i].offset) :
                         Step(i, [threads[i] EXCEPT !.pc = "done", !.ok = TRUE, !.out = w])
                    /\ crashed' \in BOOLEAN
            /\ UNCHANGED <<registry, last, start, heap, solo, engines>>

nativeClearBuffer_find(i, t) ==
    /\ ~crashed
    /\ threads[i].pc = "idle"
    /\ Find(i, "clear", t, <<>>, 0, 0, "clear_size")

\* size = 0;
ByteBuffer_clear_size(i) ==
    /\ ~crashed
    /\ threads[i].pc = "clear_size"
    /\ IF threads[i].freed THEN Dangle(i)
       ELSE /\ Store(threads[i].name, [Resolved(i) EXCEPT !.size = 0])
            /\ Step(i, [threads[i] EXCEPT !.pc = "clear_memset"])
            /\ UNCHANGED <<g_bufferPool, crashed, last, start, heap, solo, engines>>

\* a memset that zeroes every buffer of the registry
ByteBuffer_clear_memset_all(i) ==
    /\ ~crashed
    /\ threads[i].pc = "clear_memset"
    /\ IF threads[i].freed THEN Dangle(i)
       ELSE /\ g_sharedBuffer' =
                  IF g_sharedBuffer = nullptr THEN nullptr
                  ELSE [g_sharedBuffer EXCEPT
                           !.data = [k \in DOMAIN g_sharedBuffer.data |-> 0]]
            /\ g_namedBuffers' =
                  [n \in DOMAIN g_namedBuffers |->
                     IF g_namedBuffers[n] = nullptr THEN nullptr
                     ELSE [g_namedBuffers[n] EXCEPT
                              !.data = [k \in DOMAIN g_namedBuffers[n].data |-> 0]]]
            /\ Step(i, [threads[i] EXCEPT !.pc = "done", !.ok = TRUE])
            /\ UNCHANGED <<g_bufferPool, crashed, last, start, heap, solo, engines>>

\* memset(data, 0, capacity);
ByteBuffer_clear_memset(i) ==
    /\ ~crashed
    /\ threads[i].pc = "clear_memset"
    /\ IF threads[i].freed THEN Dangle(i)
       ELSE /\ Store(threads[i].name, [Resolved(i) EXCEPT
                        !.data = [k \in DOMAIN Resolved(i).data |-> 0]])
            /\ Step(i, [threads[i] EXCEPT !.pc = "done", !.ok = TRUE])
            /\ UNCHANGED <<g_bufferPool, crashed, last, start, heap, solo, engines>>

bytetransfer_get_info_find(i, t) ==
    /\ ~crashed
    /\ threads[i].pc = "idle"
    /\ Find(i, "info", t, <<>>, 0, 0, "info_load")

\* *size = buffer->size; *capacity = buffer->capacity; return true;
bytetransfer_get_info_load(i) ==
    /\ ~crashed
    /\ threads[i].pc = "info_load"
    /\ IF threads[i].freed THEN Dangle(i)
       ELSE /\ Step(i, [threads[i] EXCEPT
                          !.pc = "done", !.ok = TRUE,
                          !.out = <<Resolved(i).size, Resolved(i).capacity>>])
            /\ UNCHANGED <<registry, crashed, last, start, heap, solo, engines>>

\* nativeCleanup on thread i: every buffer is deleted
Concurrent_nativeCleanup(i) ==
    /\ ~crashed
    /\ threads[i].pc = "idle"
    /\ g_sharedBuffer' = nullptr
    /\ g_bufferPool' = <<>>
    /\ g_namedBuffers' = [k \in {} |-> nullptr]
    /\ Enter(i, [IdleThread EXCEPT !.pc = "done", !.op = "cleanup", !.ok = TRUE],
             TargetArgs)
    /\ UNCHANGED <<crashed, last, start, solo, engines>>
    /\ heap' = MapDtor(ByteBuffer_dtor(heap, g_sharedBuffer),
                       g_namedBuffers, DOMAIN g_namedBuffers)

\* nativeCreateNamedBuffer on thread i: the buffer the name had is deleted
Concurrent_nativeCreateNamedBuffer(i, name, size) ==
    /\ ~crashed
    /\ threads[i].pc = "idle"
    /\ IF CanAllocate(ToSizeT(size))
       THEN /\ g_namedBuffers' = MapPut(g_namedBuffers, name, ByteBuffer(ToSizeT(size)))
            /\ Enter(i, [IdleThread EXCEPT !.pc = "done", !.op = "create",
                                           !.name = name, !.len = size, !.ok = TRUE],
                     {name})
       ELSE /\ g_namedBuffers' \in CreateFailedMaps(name)
            /\ Enter(i, [IdleThread EXCEPT !.pc = "done", !.op = "create",
                                           !.name = name, !.len = size], {})
    /\ UNCHANGED <<g_sharedBuffer, g_bufferPool, crashed, last, start, solo, engines>>
    /\ heap' = IF CanAllocate(ToSizeT(size))
               THEN ByteBuffer_dtor(ByteBuffer_new(heap, ToSizeT(size)),
                                    IF name \in DOMAIN g_namedBuffers
                                    THEN g_namedBuffers[name] ELSE nullptr)
               ELSE heap

\* nativeInitializeByteTransfer on thread i: the old default buffer is deleted
Concurrent_nativeInitializeByteTransfer(i, bufferSize) ==
    /\ ~crashed
    /\ threads[i].pc = "idle"
    /\ IF CanAllocate(ToSizeT(bufferSize))
       THEN /\ g_sharedBuffer' = ByteBuffer(ToSizeT(bufferSize))
            /\ Enter(i, [IdleThread EXCEPT !.pc = "done", !.op = "init",
                                           !.len = bufferSize, !.ok = TRUE], {NoName})
       ELSE /\ g_sharedBuffer' = g_sharedBuffer
            /\ Enter(i, [IdleThread EXCEPT !.pc = "done", !.op = "init",
                                           !.len = bufferSize], {})
    /\ UNCHANGED <<g_namedBuffers, g_bufferPool, crashed, last, start, solo, engines>>
    /\ heap' = IF CanAllocate(ToSizeT(bufferSize))
               THEN ByteBuffer_dtor(ByteBuffer_new(heap, ToSizeT(bufferSize)), g_sharedBuffer)
               ELSE heap

NextConc ==
    \/ \E i \in Threads, t \in TargetArgs, p \in ConcPayloads :
           bytetransfer_write_from_v8_find(i, t, p)
    \/ \E i \in Threads : ByteBuffer_write_check(i)
    \/ \E i \in Threads : ByteBuffer_write_memcpy(i)
    \/ \E i \in Threads : ByteBuffer_write_advance(i)
    \/ \E i \in Threads, t \in TargetArgs, l \in ConcLens :
           bytetransfer_read_for_v8_find(i, t, l, 0)
    \/ \E i \in Threads : ByteBuffer_read_check(i)
    \/ \E i \in Threads : ByteBuffer_read_memcpy(i)
    \/ \E i \in Threads, t \in TargetArgs : nativeClearBuffer_find(i, t)
    \/ \E i \in Threads : ByteBuffer_clear_size(i)
    \/ \E i \in Threads : ByteBuffer_clear_memset(i)
    \/ \E i \in Threads, t \in TargetArgs : bytetransfer_get_info_find(i, t)
    \/ \E i \in Threads : bytetransfer_get_info_load(i)
    \/ \E i \in Threads : Concurrent_nativeCleanup(i)
    \/ \E i \in Threads, n \in NameArgs, c \in ConcCaps :
           Concurrent_nativeCreateNamedBuffer(i, n, c)
    \/ \E i \in Threads, c \in ConcCaps : Concurrent_nativeInitializeByteTransfer(i, c)

SpecConc == InitConc /\ [][NextConc]_vars

\* the buffer under target t when the overlapping calls started
StartOf(t) == TargetIn(start[1], start[2], t)

\* what the call of thread th returns and leaves of buffer b when it runs
\* on b with no other call in between
AloneBuffer(th, b) ==
    IF b = nullptr THEN b
    ELSE IF th.op = "write" THEN ByteBuffer_write(b, th.data)
    ELSE IF th.op = "clear" THEN ByteBuffer_clear(b)
    ELSE b

AloneResult(th, b) ==
    IF th.op = "clear" THEN <<TRUE, <<>>>>
    ELSE IF b = nullptr THEN <<FALSE, <<>>>>
    ELSE IF th.op = "write" THEN <<ByteBuffer_write_ok(b, th.data), <<>>>>
    ELSE IF th.op = "info" THEN <<TRUE, <<b.size, b.capacity>>>>
    ELSE IF ReadRejected(b, th.len, th.offset) THEN <<FALSE, <<>>>>
    ELSE <<TRUE, ByteBuffer_read(b, th.len, th.offset)>>

\* both threads have finished a write to the same target
TwoWritesDone(i, j) ==
    /\ i # j
    /\ threads[i].pc = "done" /\ threads[i].op = "write"
    /\ threads[j].pc = "done" /\ threads[j].op = "write"
    /\ threads[i].name = threads[j].name

\* the outcome is that of write x followed by write y on buffer b
SerialWrites(b, x, y) ==
    /\ <<x.ok, x.out>> = AloneResult(x, b)
    /\ <<y.ok, y.out>> = AloneResult(y, AloneBuffer(x, b))
    /\ Target(x.name) = AloneBuffer(y, AloneBuffer(x, b))
    /\ Target(x.name) # nullptr => Target(x.name).size <= Target(x.name).capacity

\* ---------------------------------------------------------------- C18
\* C18: with calls running on several threads, no write, read, info or clear
\* ever uses a buffer that a concurrent cleanup, create or initialise has
\* already destroyed.
C18_NoDanglingUse ==
    \A i \in Threads : ~threads[i].dangling

\* ---------------------------------------------------------------- C19
\* C19: two writes to the same buffer from different threads end
\* as if they had run one after the other in some order: the size is the old
\* size plus the lengths of the writes that returned true, the payloads lie
\* one behind the other, and size <= capacity.
C19_WritesSerialized ==
    \A i \in Threads, j \in Threads :
        (TwoWritesDone(i, j) /\ ~crashed)
        => \/ SerialWrites(StartOf(threads[i].name), threads[i], threads[j])
           \/ SerialWrites(StartOf(threads[i].name), threads[j], threads[i])

\* ---------------------------------------------------------------- C20
\* the call recorded in th is a write, read, clear or info
BufferCall(th) == th.op \in {"write", "read", "clear", "info"}

\* C20: when the two threads run write / read / clear / info calls on
\* different targets and nothing else, then under every interleaving of
\* their statements each finished call has returned what it returns when run
\* alone, and has left its buffer as it leaves it when run alone.
C20_DifferentBuffersIndependent ==
    \A i \in Threads, j \in Threads :
        (/\ i # j
         /\ BufferCall(threads[i]) /\ BufferCall(threads[j])
         /\ threads[i].name # threads[j].name
         /\ threads[i].pc = "done")
        => /\ ~crashed
           /\ <<threads[i].ok, threads[i].out>>
                 = AloneResult(threads[i], StartOf(threads[i].name))
           /\ Target(threads[i].name)
                 = AloneBuffer(threads[i], StartOf(threads[i].name))

\* a write to the default buffer and a clear of a named buffer that holds
\* data have run interleaved, and both are done
C20_Witness ==
    /\ threads[1].pc = "done" /\ threads[1].op = "write" /\ threads[1].ok
    /\ threads[1].name = NoName
    /\ threads[2].pc = "done" /\ threads[2].op = "clear"
    /\ threads[2].name \in DOMAIN start[2]
    /\ start[2][threads[2].name].size > 0
    /\ ~threads[1].alone /\ ~threads[2].alone

\* ---------------------------------------------------------------- C21
\* C21: a read or an info, successful or not, leaves the default slot, the
\* set of names and every buffer's size, capacity and bytes as they were; a
\* successful info returns the (size, capacity) of the buffer it resolved.
C21_ReadAndInfoArePure ==
    [][last'.op \in {"read", "info"}
       => /\ registry' = registry
          /\ (last'.op = "info" /\ last'.ok)
                => /\ Target(last'.name) # nullptr
                   /\ last'.out = <<Target(last'.name).size,
                                    Target(last'.name).capacity>>]_vars

\* an info has just reported a buffer that holds data
C21_Witness ==
    /\ last.op = "info" /\ last.ok
    /\ Target(last.name) # nullptr
    /\ Target(last.name).size > 0
    /\ last.out = <<Target(last.name).size, Target(last.name).capacity>>

\* ---------------------------------------------------------------- C22
\* C22: the capacity seen under a target changes only when a successful
\* initialise (default) or create (that name) puts a new buffer there; a
\* buffer disappears from under a target only by cleanup; write, read, info
\* and clear leave every capacity as it was.
C22_CapacityFixed ==
    [][\A t \in TargetArgs :
         LET old == Target(t)
             new == TargetIn(g_sharedBuffer', g_namedBuffers', t)
         IN  /\ (old # nullptr /\ new # nullptr /\ new.capacity # old.capacity)
                => (last'.op \in {"init", "create"} /\ last'.ok /\ last'.name = t)
             /\ (old # nullptr /\ new = nullptr) => last'.op = "cleanup"
             /\ last'.op \in {"write", "read", "info", "clear", "selftest"}
                => (old # nullptr => (new # nullptr /\ new.capacity = old.capacity))]_vars

\* a buffer with some capacity, full of data, has just been cleared
C22_Witness ==
    /\ last.op = "clear" /\ ~crashed
    /\ Target(last.name) # nullptr
    /\ Target(last.name).capacity = HeapBytes
    /\ Target(last.name).size = 0

\* ---------------------------------------------------------------- the struct on its own
\* ByteBuffer exercised outside the registry: one object, built by either
\* constructor, written, read, cleared and destroyed.  The wrapping
\* constructor is used by no entry point of the registry.

\* the caller's memory handed to the wrapping constructor
RegionArgs == Payloads

\* ByteBuffer(size_t cap) on the object
Object_ByteBuffer(cap) ==
    /\ ~crashed
    /\ object = nullptr
    /\ IF CanAllocate(ToSizeT(cap))
       THEN /\ object' = ByteBuffer(ToSizeT(cap))
            /\ heap' = ByteBuffer_new(heap, ToSizeT(cap))
            /\ last' = Call("construct", "object", NoName, <<>>, cap, 0, TRUE, <<>>)
       ELSE /\ UNCHANGED <<object, heap>>
            /\ last' = Call("construct", "object", NoName, <<>>, cap, 0, FALSE, <<>>)
    /\ UNCHANGED <<registry, crashed, conc, engines, external>>

\* ByteBuffer(uint8_t* external_data, size_t data_size): a view of the
\* caller's memory, size = capacity = data_size, is_owner = false
Object_wrap(external_data) ==
    /\ ~crashed
    /\ object = nullptr
    /\ object' = [data |-> external_data, size |-> Len(external_data),
                  capacity |-> Len(external_data), is_owner |-> FALSE]
    /\ external' = [len |-> Len(external_data), released |-> FALSE]
    /\ last' = Call("wrap", "object", NoName, external_data, Len(external_data), 0,
                    TRUE, <<>>)
    /\ UNCHANGED <<registry, crashed, conc, engines, heap>>

Object_write(src) ==
    /\ ~crashed
    /\ object # nullptr
    /\ object' = ByteBuffer_write(object, src)
    /\ last' = Call("write", "object", NoName, src, Len(src), 0,
                    ByteBuffer_write_ok(object, src), <<>>)
    /\ UNCHANGED <<registry, crashed, conc, engines, heap, external>>

Object_read(len, offset) ==
    /\ ~crashed
    /\ object # nullptr
    /\ \E r \in ReadOutcomes(object, len, offset) :
         /\ last' = Call("read", "object", NoName, <<>>, len, offset, r.ok, r.out)
         /\ crashed' = r.crash
    /\ UNCHANGED <<registry, conc, engines, heap, object, external>>

Object_clear ==
    /\ ~crashed
    /\ object # nullptr
    /\ object' = ByteBuffer_clear(object)
    /\ last' = Call("clear", "object", NoName, <<>>, 0, 0, TRUE, <<>>)
    /\ UNCHANGED <<registry, crashed, conc, engines, heap, external>>

\* ~ByteBuffer on the object; ok records whether delete[] ran
Object_destroy ==
    /\ ~crashed
    /\ object # nullptr
    /\ object' = nullptr
    /\ heap' = ByteBuffer_dtor(heap, object)
    /\ external' = IF object.is_owner THEN external
                   ELSE [external EXCEPT !.released = Releases(object)]
    /\ last' = Call("destroy", "object", NoName, <<>>, object.capacity, 0,
                    Releases(object), <<>>)
    /\ UNCHANGED <<registry, crashed, conc, engines>>

NextObject ==
    \/ \E c \in CapArgs : Object_ByteBuffer(c)
    \/ \E r \in RegionArgs : Object_wrap(r)
    \/ \E p \in Payloads : Object_write(p)
    \/ \E l \in 0 .. MaxLen, o \in 0 .. MaxLen : Object_read(l, o)
    \/ Object_clear
    \/ Object_destroy

SpecObject == Init /\ [][NextObject]_vars

\* ---------------------------------------------------------------- C23
\* C23: every buffer of the registry owns its storage, and the storage that
\* is allocated is at all times exactly the storage of the buffers reachable
\* through the registry: it is released in the step that replaces or removes
\* its buffer, not before and not a second time; after cleanup none is left.
C23_StorageReleasedOnce ==
    /\ ~heap.bad
    /\ \A t \in TargetArgs : Target(t) # nullptr => Target(t).is_owner
    /\ \A c \in 0 .. HeapBytes :
          heap.live[c] = Cardinality(OwnedBy(g_sharedBuffer, g_namedBuffers, c))
    /\ last.op = "cleanup" => \A c \in 0 .. HeapBytes : heap.live[c] = 0

\* an initialise has just replaced the default buffer while a named buffer
\* holds the rest of the heap
C23_Witness ==
    /\ last.op = "init" /\ last.ok /\ last.len > 0
    /\ heap.live[last.len] >= 1
    /\ \E n \in DOMAIN g_namedBuffers :
          g_namedBuffers[n] # nullptr /\ g_namedBuffers[n].capacity > 0

\* ---------------------------------------------------------------- C25
\* C25: a buffer wrapped over n bytes of caller memory has capacity = size =
\* n and does not own them; a read of (n, 0) right after the wrap returns the
\* n bytes; while it is full (that is, until a clear) every non-empty write
\* fails and changes nothing; destroying it never releases the caller's memory.
C25_WrapIsFullAndBorrowed ==
    [][/\ last'.op = "wrap"
          => /\ object' = [data |-> last'.data, size |-> last'.len,
                           capacity |-> last'.len, is_owner |-> FALSE]
             /\ external'.len = last'.len
       /\ (last.op = "wrap" /\ last'.op = "read"
             /\ last'.len = last.len /\ last'.offset = 0)
          => (last'.ok /\ last'.out = last.data /\ ~crashed')
       /\ (object # nullptr /\ ~object.is_owner /\ object.size = object.capacity)
          => /\ (last'.op = "write" /\ last'.len > 0)
                   => (~last'.ok /\ object' = object)
             /\ last'.op \notin {"clear", "destroy"} => object' = object
       /\ (last'.op = "destroy" /\ object # nullptr /\ ~object.is_owner)
          => (~external'.released /\ heap' = heap)
       /\ ~heap'.bad /\ ~external'.released]_vars

\* a buffer wrapped over some bytes of caller memory has just been destroyed
C25_Witness ==
    /\ last.op = "destroy" /\ ~last.ok /\ last.len > 0
    /\ external.len = last.len
    /\ ~external.released
    /\ object = nullptr

\* ---------------------------------------------------------------- C24
\* C24: an initialise or create whose storage cannot be allocated (a
\* negative jint capacity included) returns false, does not end the process
\* and leaves the registry as it was before the call.
C24_FailedAllocationChangesNothing ==
    [][(last'.op \in {"init", "create"} /\ ~last'.ok)
       => (registry' = registry /\ ~crashed')]_vars

\* ---------------------------------------------------------------- C26
\* C26: with offset and length taken as unsigned machine words, a read that
\* reports success has copied only bytes of [0, size), also when offset +
\* length wraps; and no read of an existing buffer runs outside its storage.
C26_ReadCheckExact ==
    /\ (last.op = "read" /\ last.ok)
       => \A i \in 1 .. last.len :
             ToSizeT(last.offset) + i <= Target(last.name).size
    /\ (last.op = "read" /\ Target(last.name) # nullptr) => ~crashed

\* ---------------------------------------------------------------- C27
\* a successful write of payload p to target t appends p behind the bytes
\* that were there, a failed one changes nothing, and nothing but zeros lies
\* behind size
AppendsOnly(t) ==
    LET old == Target(t)
        new == TargetIn(g_sharedBuffer', g_namedBuffers', t)
        p == last'.data
    IN  /\ (IsWrite(last') /\ WriteOk(last') /\ last'.name = t)
           => /\ new.size = old.size + Len(p)
              /\ \A k \in 1 .. old.size : new.data[k] = old.data[k]
              /\ \A k \in 1 .. Len(p) : new.data[old.size + k] = p[k]
        /\ (IsWrite(last') /\ ~WriteOk(last')) => registry' = registry
        /\ new # nullptr
           => \A k \in DOMAIN new.data : k > new.size => new.data[k] = 0

\* the read in last' reads back exactly the payload the write in last appended
ReadsBackLastWrite ==
    /\ last.op = "write" /\ last.ok /\ last.len > 0
    /\ last'.op = "read" /\ last'.name = last.name
    /\ last'.len = last.len
    /\ last'.offset = Target(last.name).size - last.len

\* C27: the bytes in [0, size) of a buffer are the payloads of the successful
\* writes since its creation or last clear, in call order; a read of the
\* payload just written returns it; failed writes add nothing; and a
\* successful read returns nothing but bytes of [0, size).
C27_ContentIsConcatenation ==
    [][/\ \A t \in TargetArgs : Target(t) # nullptr => AppendsOnly(t)
       /\ ReadsBackLastWrite => (last'.ok /\ last'.out = last.data)
       /\ (last'.op = "read" /\ last'.ok)
          => \E o \in 0 .. Target(last'.name).size :
                /\ o + last'.len <= Target(last'.name).size
                /\ last'.out = ByteBuffer_read(Target(last'.name), last'.len, o)]_vars

\* ---------------------------------------------------------------- C28
\* C28: a write through the JNI functions (nativeWriteBytes,
\* nativeWriteBytesToNamed) is a write through bytetransfer_write_from_v8
\* with the same target and payload: same return value, same resulting
\* registry; and the payload written through one is read back through the other.
C28_WritePathsEquivalent ==
    [][/\ (last'.op = "write" /\ last'.via = "jni")
          => bytetransfer_write_from_v8(last'.data, last'.name, last'.ok)
       /\ (ReadsBackLastWrite /\ last'.via # last.via)
          => (last'.ok /\ last'.out = last.data)]_vars

\* a JNI write has just landed in a named buffer that already held data
C28_Witness ==
    /\ last.op = "write" /\ last.via = "jni" /\ last.ok /\ last.len > 0
    /\ last.name \in NameArgs
    /\ Target(last.name).size > last.len

\* ---------------------------------------------------------------- C30
\* C30: the size seen under a target changes only by a successful write
\* there (up by the payload length) or by a clear, initialise or create
\* there (to 0); reads, infos and failed writes leave every size alone, and
\* a full buffer rejects every non-empty write.
C30_SizeChangesOnlyByWriteOrReset ==
    [][/\ \A t \in TargetArgs :
            LET old == Target(t)
                new == TargetIn(g_sharedBuffer', g_namedBuffers', t)
            IN  (old # nullptr /\ new # nullptr /\ new.size # old.size)
                => /\ last'.name = t
                   /\ \/ /\ IsWrite(last') /\ WriteOk(last')
                         /\ new.size = old.size + Len(last'.data)
                      \/ /\ last'.op \in {"clear", "init", "create"}
                         /\ new.size = 0
       /\ (last'.op \in {"read", "info"} \/ (last'.op = "write" /\ ~last'.ok))
          => registry' = registry
       /\ (/\ last'.op = "write" /\ last'.len > 0
           /\ Target(last'.name) # nullptr
           /\ Target(last'.name).size = Target(last'.name).capacity)
          => ~last'.ok]_vars

\* a full named buffer has just rejected a one-byte write
C30_Witness ==
    /\ last.op = "write" /\ ~last.ok /\ last.len = 1 /\ ~crashed
    /\ last.name \in NameArgs
    /\ Target(last.name) # nullptr
    /\ Target(last.name).capacity > 0
    /\ Target(last.name).size = Target(last.name).capacity

\* ---------------------------------------------------------------- C29
\* thread i has finished a read that returned true while thread j ran a
\* write or a clear on the same target
ReadBesideWriter(i, j) ==
    /\ i # j
    /\ threads[i].pc = "done" /\ threads[i].op = "read" /\ threads[i].ok
    /\ ~threads[i].dangling
    /\ threads[j].op \in {"write", "clear"}
    /\ threads[j].name = threads[i].name

\* what the read of thread th returns on buffer b, when it succeeds there
ReadsAt(th, b) ==
    IF b = nullptr \/ ReadRejected(b, th.len, th.offset) THEN {}
    ELSE {ByteBuffer_read(b, th.len, th.offset)}

\* C29: a successful read that ran beside one write or one clear on the same
\* buffer returns the bytes a read returns at one moment of the run: before
\* the other call, or after it (between its statements the buffer holds the
\* old bytes with the old size or with size 0).
C29_ReadLinearizable ==
    \A i \in Threads, j \in Threads :
        (ReadBesideWriter(i, j) /\ ~crashed)
        => threads[i].out \in
              ReadsAt(threads[i], StartOf(threads[i].name)) \cup
              ReadsAt(threads[i], AloneBuffer(threads[j], StartOf(threads[i].name)))

\* ---------------------------------------------------------------- the engines
\* MockV8Engine / RealQuickJSEngine and their JNI entry points.  An engine
\* reaches the registry through bytetransfer_write_from_v8 alone.  The heap
\* of the model counts buffer storage only; the engine objects are outside it.

\* the characters of a C string: no zero byte
Chars == Bytes \ {0}
\* the scripts a caller passes, and the strings an evaluation can produce
ScriptArgs == UNION {[1 .. n -> Chars] : n \in 0 .. MaxLen - 1}
\* the names the engines write to
EngineNames == {"v8_output", "quickjs_output"}

\* "V8 Result: " (scaled to one character)
V8ResultPrefix == <<1>>
\* "Error: V8 not initialized" (scaled: longer than any result)
V8NotInitialized == [i \in Span(MaxLen + 1) |-> 1]
\* "QuickJS Result: " (scaled to one character)
QuickJSResultPrefix == <<1>>
\* "Error: QuickJS not initialized" (scaled: longer than any result)
QuickJSNotInitialized == [i \in Span(MaxLen + 1) |-> 1]
\* "JavaScript Error: " + the exception text (scaled: longer than the above)
JavaScriptError == [i \in Span(MaxLen + 2) |-> 1]

\* std::string::c_str() handed to NewStringUTF: the characters before the
\* first zero byte
RECURSIVE c_str(_)
c_str(str) ==
    IF str = <<>> \/ Head(str) = 0 THEN <<>>
    ELSE <<Head(str)>> \o c_str(Tail(str))

\* MockV8Engine(): initialized(false)
MockV8Engine == [initialized |-> FALSE]

\* MockV8Engine::initialize
MockV8Engine_initialize(e) == [e EXCEPT !.initialized = TRUE]

\* MockV8Engine::cleanup
MockV8Engine_cleanup(e) == [e EXCEPT !.initialized = FALSE]

\* MockV8Engine::executeScript on *g_v8Engine; result is the string it
\* returns and ok what bytetransfer_write_from_v8 answered
MockV8Engine_executeScript(script, ok, result) ==
    IF ~g_v8Engine.initialized
    THEN /\ result = V8NotInitialized
         /\ ok = FALSE
         /\ UNCHANGED <<g_sharedBuffer, g_namedBuffers, crashed>>
    ELSE /\ result = V8ResultPrefix \o script
         /\ bytetransfer_write_from_v8(result, "v8_output", ok)

V8Bridge_initializeV8 ==
    /\ ~crashed
    /\ g_v8Engine' = MockV8Engine_initialize(IF g_v8Engine = nullptr THEN MockV8Engine
                                             ELSE g_v8Engine)
    /\ last' = Call("engine_init", "v8", NoName, <<>>, 0, 0, TRUE, <<>>)
    /\ UNCHANGED <<registry, crashed, conc, heap, solo, g_quickjsEngine>>

\* V8Bridge.executeScript; out is the jstring it returns, ok whether its
\* result reached the registry
V8Bridge_executeScript(script) ==
    /\ ~crashed
    /\ IF g_v8Engine = nullptr
       THEN /\ last' = Call("execute", "v8", "v8_output", script, Len(script), 0, FALSE,
                            c_str(V8NotInitialized))
            /\ UNCHANGED <<g_sharedBuffer, g_namedBuffers, crashed>>
       ELSE \E ok \in BOOLEAN, result \in {V8NotInitialized, V8ResultPrefix \o script} :
                /\ MockV8Engine_executeScript(script, ok, result)
                /\ last' = Call("execute", "v8", "v8_output", script, Len(script), 0, ok,
                                IF crashed' THEN <<>> ELSE c_str(result))
    /\ UNCHANGED <<g_bufferPool, conc, heap, solo, engines>>

\* a cleanup of the engine that tears the registry down with it
V8Bridge_cleanupV8_registry ==
    /\ ~crashed
    /\ g_v8Engine' = nullptr
    /\ heap' = MapDtor(ByteBuffer_dtor(heap, g_sharedBuffer),
                       g_namedBuffers, DOMAIN g_namedBuffers)
    /\ g_sharedBuffer' = nullptr
    /\ g_namedBuffers' = [k \in {} |-> nullptr]
    /\ last' = Call("engine_cleanup", "v8", NoName, <<>>, 0, 0, TRUE, <<>>)
    /\ UNCHANGED <<g_bufferPool, crashed, conc, solo, g_quickjsEngine>>

\* V8Bridge.cleanupV8: cleanup(), delete, g_v8Engine = nullptr
V8Bridge_cleanupV8 ==
    /\ ~crashed
    /\ g_v8Engine' = nullptr
    /\ last' = Call("engine_cleanup", "v8", NoName, <<>>, 0, 0, TRUE, <<>>)
    /\ UNCHANGED <<registry, crashed, conc, heap, solo, g_quickjsEngine>>

\* RealQuickJSEngine(): runtime(nullptr), context(nullptr), initialized(false);
\* runtime and context record whether the handle is non-null
RealQuickJSEngine == [runtime |-> FALSE, context |-> FALSE, initialized |-> FALSE]

\* RealQuickJSEngine::initialize: the engine after the call and its return
\* value, for JS_NewRuntime failing, JS_NewContext failing, and success
RealQuickJSEngine_initialize(e) ==
    {[engine |-> [e EXCEPT !.runtime = FALSE], ok |-> FALSE],
     [engine |-> [e EXCEPT !.runtime = FALSE, !.context = FALSE], ok |-> FALSE],
     [engine |-> [runtime |-> TRUE, context |-> TRUE, initialized |-> TRUE], ok |-> TRUE]}

\* RealQuickJSEngine::cleanup
RealQuickJSEngine_cleanup(e) ==
    [runtime |-> FALSE, context |-> FALSE, initialized |-> FALSE]

\* RealQuickJSEngine::executeScript on *g_quickjsEngine.  value is what
\* JS_Eval produced (JavaScriptError for an exception), result the string
\* returned, ok what bytetransfer_write_from_v8 answered
RealQuickJSEngine_executeScript(value, ok, result) ==
    IF ~g_quickjsEngine.initialized \/ ~g_quickjsEngine.context
    THEN /\ result = QuickJSNotInitialized
         /\ ok = FALSE
         /\ UNCHANGED <<g_sharedBuffer, g_namedBuffers, crashed>>
    ELSE IF value = JavaScriptError
    THEN /\ result = JavaScriptError
         /\ ok = FALSE
         /\ UNCHANGED <<g_sharedBuffer, g_namedBuffers, crashed>>
    ELSE /\ result = value
         /\ bytetransfer_write_from_v8(QuickJSResultPrefix \o value, "quickjs_output", ok)

QuickJSBridge_initializeQuickJS ==
    /\ ~crashed
    /\ \E r \in RealQuickJSEngine_initialize(IF g_quickjsEngine = nullptr
                                             THEN RealQuickJSEngine ELSE g_quickjsEngine) :
         /\ g_quickjsEngine' = r.engine
         /\ last' = Call("engine_init", "quickjs", NoName, <<>>, 0, 0, r.ok, <<>>)
    /\ UNCHANGED <<registry, crashed, conc, heap, solo, g_v8Engine>>

\* QuickJSBridge.executeScript; the script's value is whatever its evaluation
\* gives
QuickJSBridge_executeScript(script) ==
    /\ ~crashed
    /\ IF g_quickjsEngine = nullptr
       THEN /\ last' = Call("execute", "quickjs", "quickjs_output", script, Len(script), 0,
                            FALSE, c_str(QuickJSNotInitialized))
            /\ UNCHANGED <<g_sharedBuffer, g_namedBuffers, crashed>>
       ELSE \E value \in ScriptArgs \cup {JavaScriptError}, ok \in BOOLEAN,
               result \in ScriptArgs \cup {JavaScriptError, QuickJSNotInitialized} :
                /\ RealQuickJSEngine_executeScript(value, ok, result)
                /\ last' = Call("execute", "quickjs", "quickjs_output", script, Len(script),
                                0, ok, IF crashed' THEN <<>> ELSE c_str(result))
    /\ UNCHANGED <<g_bufferPool, conc, heap, solo, engines>>

\* QuickJSBridge.cleanupQuickJS: cleanup(), delete, g_quickjsEngine = nullptr
QuickJSBridge_cleanupQuickJS ==
    /\ ~crashed
    /\ g_quickjsEngine' = nullptr
    /\ last' = Call("engine_cleanup", "quickjs", NoName, <<>>, 0, 0, TRUE, <<>>)
    /\ UNCHANGED <<registry, crashed, conc, heap, solo, g_v8Engine>>

\* the engines beside the registry calls that give them buffers to write to
NextEngine ==
    \/ V8Bridge_initializeV8
    \/ \E s \in ScriptArgs : V8Bridge_executeScript(s)
    \/ V8Bridge_cleanupV8
    \/ QuickJSBridge_initializeQuickJS
    \/ \E s \in ScriptArgs : QuickJSBridge_executeScript(s)
    \/ QuickJSBridge_cleanupQuickJS
    \/ \E c \in CapArgs : nativeInitializeByteTransfer(c)
    \/ \E n \in EngineNames, c \in CapArgs : nativeCreateNamedBuffer(n, c)
    \/ \E p \in Payloads : nativeWriteBytes(p)
    \/ \E n \in EngineNames, l \in 1 .. MaxLen, o \in 0 .. MaxLen :
           nativeReadBytesFromNamed(n, l, o)
    \/ \E t \in EngineNames \cup {NoName} : nativeClearBuffer(t)
    \/ nativeCleanup

SpecEngine == Init /\ [][NextEngine]_vars

\* ---------------------------------------------------------------- C31
\* the call just made belongs to an engine's life cycle
EngineLifecycle(c) == c.op \in {"engine_init", "engine_cleanup"}

\* C31: bringing an engine up or tearing it down (V8 or QuickJS) leaves the
\* default slot, the set of names, every buffer and the storage they hold
\* as they were, so every read gives after it what it gave before it; and a
\* script execution neither adds nor removes a name nor makes or drops the
\* default buffer: an engine never creates the buffer it writes to.
C31_EnginesLeaveRegistry ==
    [][/\ EngineLifecycle(last')
          => /\ g_sharedBuffer' = g_sharedBuffer
             /\ g_namedBuffers' = g_namedBuffers
             /\ g_bufferPool' = g_bufferPool
             /\ heap' = heap
             /\ \A t \in EngineNames \cup {NoName}, l \in 1 .. MaxLen, o \in 0 .. MaxLen :
                    bytetransfer_read_for_v8(g_sharedBuffer', g_namedBuffers', l, o, t)
                      = bytetransfer_read_for_v8(g_sharedBuffer, g_namedBuffers, l, o, t)
       /\ last'.op = "execute"
          => /\ DOMAIN g_namedBuffers' = DOMAIN g_namedBuffers
             /\ g_sharedBuffer' = g_sharedBuffer
             /\ heap' = heap
             /\ \A n \in DOMAIN g_namedBuffers :
                    (g_namedBuffers'[n] = nullptr) <=> (g_namedBuffers[n] = nullptr)]_vars

\* the V8 engine wrote a result into "v8_output" and has then been torn
\* down: the result is still in the buffer
C31_Witness ==
    /\ last.op = "engine_cleanup" /\ last.via = "v8"
    /\ g_v8Engine = nullptr
    /\ "v8_output" \in DOMAIN g_namedBuffers
    /\ g_namedBuffers["v8_output"] # nullptr
    /\ g_namedBuffers["v8_output"].size = HeapBytes
    /\ g_sharedBuffer = nullptr

\* ---------------------------------------------------------------- C32
\* the V8 engine is initialized: initializeV8 was called and no cleanupV8 since
V8Initialized == g_v8Engine # nullptr /\ g_v8Engine.initialized

\* the buffer "v8_output" names in the map, nullptr if there is none
V8Output(named) ==
    IF "v8_output" \in DOMAIN named THEN named["v8_output"] ELSE nullptr

\* b is a with the string str appended behind its contents
Appended(a, b, str) ==
    /\ b.capacity = a.capacity
    /\ b.is_owner = a.is_owner
    /\ b.size = a.size + Len(str)
    /\ \A k \in 1 .. a.size : b.data[k] = a.data[k]
    /\ \A k \in 1 .. Len(str) : b.data[a.size + k] = str[k]
    /\ \A k \in DOMAIN b.data : k > b.size => b.data[k] = a.data[k]

\* C32: the engine is initialized exactly between an initializeV8 and the
\* next cleanupV8.  V8Bridge.executeScript returns; it never changes the
\* default buffer, the set of names or a buffer under another name.  When
\* the engine is not initialized it changes nothing and returns the error
\* text.  When it is, it returns "V8 Result: " + script whatever became of
\* the write, and the write either appends exactly that string to the buffer
\* "v8_output" or, when there is no such buffer or the string does not fit
\* behind what the buffer holds, changes nothing.
C32_ExecuteAppendsResult ==
    [][/\ (last'.op = "engine_init" /\ last'.via = "v8")
          => (g_v8Engine' # nullptr /\ g_v8Engine'.initialized)
       /\ (last'.op = "engine_cleanup" /\ last'.via = "v8") => g_v8Engine' = nullptr
       /\ ~(last'.op \in {"engine_init", "engine_cleanup"} /\ last'.via = "v8")
          => g_v8Engine' = g_v8Engine
       /\ (last'.op = "execute" /\ last'.via = "v8")
          => LET old == V8Output(g_namedBuffers)
                 new == V8Output(g_namedBuffers')
                 result == V8ResultPrefix \o last'.data
                 fits == old # nullptr /\ old.size + Len(result) <= old.capacity
             IN  /\ ~crashed'
                 /\ g_sharedBuffer' = g_sharedBuffer
                 /\ g_bufferPool' = g_bufferPool
                 /\ heap' = heap
                 /\ DOMAIN g_namedBuffers' = DOMAIN g_namedBuffers
                 /\ \A n \in DOMAIN g_namedBuffers :
                        n # "v8_output" => g_namedBuffers'[n] = g_namedBuffers[n]
                 /\ ~V8Initialized
                    => /\ g_namedBuffers' = g_namedBuffers
                       /\ last'.out = V8NotInitialized
                       /\ ~last'.ok
                 /\ V8Initialized
                    => /\ last'.out = result
                       /\ last'.ok <=> fits
                       /\ IF fits THEN Appended(old, new, result)
                          ELSE g_namedBuffers' = g_namedBuffers]_vars

====
